---- MODULE Spec2Model ----
(***************************************************************************)
(* Clipboard history utility: the polling loop of ClipboardMonitor         *)
(* (src/src/core/clipboard_monitor.py, and its predecessor in              *)
(* src/backgroundapp.py), the Qt signal that carries each new item to the  *)
(* main window, and the main window's handlers that keep the in-memory     *)
(* list and the SQLite store.                                              *)
(*                                                                         *)
(* Clipboard contents are sequences of tokens; a token is one of the       *)
(* substrings the classifier looks for, or an ordinary character.          *)
(***************************************************************************)
EXTENDS Integers, Sequences, FiniteSets, TLC

\* ------------------------------------------------------------------ bounds
\* Number of polling-loop threads that exist at the same time.
MaxThreads == 2
\* Number of times the user copies something new to the OS clipboard.
MaxCopies == 3
\* Number of clipboard reads of one loop that the observation log records.
MaxReads == 5

Threads == 1..MaxThreads

\* ------------------------------------------------------- clipboard contents
ValA == <<"a">>
ValB == <<"d", "e", "f", " ", "a">>
ValC == <<"\\", "f", "r", "a", "c", "a">>
\* The texts the OS clipboard can hold in the model, character by character.
Values == {ValA, ValB, ValC}
\* A local variable of the loop that has not been assigned yet.
Unset == <<"<unset>">>

Range(s) == {s[i] : i \in 1..Len(s)}

\* ------------------------------------------------------------- classifier
code_indicators ==
    {<<"d", "e", "f", " ">>,
     <<"f", "u", "n", "c", "t", "i", "o", "n">>,
     <<"c", "l", "a", "s", "s", " ">>,
     <<"{">>,
     <<"}", ";">>,
     <<"i", "m", "p", "o", "r", "t", " ">>,
     <<"f", "r", "o", "m", " ">>,
     <<"p", "u", "b", "l", "i", "c", " ">>,
     <<"p", "r", "i", "v", "a", "t", "e", " ">>,
     <<"#", "i", "n", "c", "l", "u", "d", "e">>}
latex_indicators ==
    {<<"\\", "b", "e", "g", "i", "n", "{">>,
     <<"\\", "e", "n", "d", "{">>,
     <<"\\", "f", "r", "a", "c">>,
     <<"\\", "s", "u", "m">>,
     <<"\\", "i", "n", "t">>,
     <<"\\", "l", "i", "m">>,
     <<"\\", "m", "a", "t", "h", "b", "b">>}

RECURSIVE LStrip(_)
LStrip(s) == IF s # <<>> /\ Head(s) = " " THEN LStrip(Tail(s)) ELSE s
RECURSIVE RStrip(_)
RStrip(s) ==
    IF s # <<>> /\ s[Len(s)] = " " THEN RStrip(SubSeq(s, 1, Len(s) - 1)) ELSE s
\* str.strip()
Strip(s) == RStrip(LStrip(s))

\* indicator in content
In(indicator, content) ==
    \E i \in 1..(Len(content) + 1) :
        /\ i + Len(indicator) - 1 <= Len(content)
        /\ SubSeq(content, i, i + Len(indicator) - 1) = indicator

QuoteChars == {"\"", "'"}

\* ClipboardManager.categorize_content: code, then LaTeX, then quotes.
categorize_content(content) ==
    LET c == Strip(content) IN
    IF \E indicator \in code_indicators : In(indicator, c) THEN "Code"
    ELSE IF \E indicator \in latex_indicators : In(indicator, c) THEN "LaTeX"
    ELSE IF c # <<>> /\ (   (Head(c) = "\"" /\ c[Len(c)] = "\"")
                         \/ (Head(c) = "'" /\ c[Len(c)] = "'"))
         THEN "Quotes"
    ELSE "Plaintext"

\* The alternatives of the second rule of categorize_text.
code_keywords ==
    {<<"d", "e", "f", " ">>,
     <<"f", "u", "n", "c", "t", "i", "o", "n", " ">>,
     <<"p", "u", "b", "l", "i", "c", " ">>,
     <<"c", "l", "a", "s", "s", " ">>,
     <<"#", "i", "n", "c", "l", "u", "d", "e">>,
     <<"i", "m", "p", "o", "r", "t", " ">>}
\* The characters of the class [\^=+\-*/\\] of its third rule.
operator_chars == {"^", "=", "+", "-", "*", "/", "\\"}

\* re.search(r"https?://\S+|www\.\S+", text): one of the three marks with a
\* character after it that is not white space.
HasUrl(text) ==
    \E mark \in {<<"h", "t", "t", "p", ":", "/", "/">>, <<"h", "t", "t", "p", "s", ":", "/", "/">>, <<"w", "w", "w", ".">>} :
        \E i \in 1..Len(text) :
            /\ i + Len(mark) <= Len(text)
            /\ SubSeq(text, i, i + Len(mark) - 1) = mark
            /\ text[i + Len(mark)] # " "

\* len(text.split()): the runs of characters between white space.
WordCount(text) ==
    Cardinality({i \in 1..Len(text) :
                    text[i] # " " /\ (i = 1 \/ text[i - 1] = " ")})

\* ContentCategorizer.categorize_text: URL, the two Code/Math rules, Quote,
\* Empty, Plaintext (the text is a str, so pd.isna is false).
categorize_text(content) ==
    LET text == Strip(content) IN
    IF HasUrl(text) THEN "URL"
    ELSE IF \E keyword \in code_keywords : In(keyword, text) THEN "Code/Math"
    ELSE IF /\ Range(text) \cap operator_chars # {}
            /\ text[Len(text)] \notin {".", "!", "?"}
         THEN "Code/Math"
    ELSE IF /\ WordCount(text) < 10
            /\ text # <<>>
            /\ Head(text) \in QuoteChars
            /\ Len(text) >= 2
            /\ text[Len(text)] \in QuoteChars
         THEN "Quote"
    ELSE IF text = <<>> THEN "Empty"
    ELSE "Plaintext"

\* ------------------------------------------------------------------ state
VARIABLES
    clipboard,          \* text on the OS clipboard (pyperclip)
    copies,             \* how many times the user has copied so far
    monitoring_active,  \* ClipboardMonitor.monitoring_active
    pc,                 \* position of each polling-loop thread
    previous_content,   \* local of _monitor_clipboard, per thread
    seen_entries,       \* local of _monitor_clipboard, per thread
    current_content,    \* local of _monitor_clipboard, per thread
    clock,              \* datetime.now(), counted in items built so far
    queue,              \* new_clipboard_content notifications not yet handled
    clipboard_items,    \* ClipboardManager.clipboard_items, newest first
    items_layout,       \* the item widgets of the window, top to bottom
    store,              \* rows of table clipboard_items, in insertion order
    running,            \* the Qt application has not quit
    \* History variables: they record what happened and steer nothing.
    emitted,            \* every item emitted so far, in emission order
    delivered,          \* every item handed to the slot so far, in order
    reads_after_stop,   \* per thread: clipboard reads made while the flag is off
    last_call,          \* "stop" after a stop_monitoring call, "stop_again"
                        \* after one that directly follows another, "recopy"
                        \* after a click on a Copy button, else "other"
    tracing,            \* whether this behaviour keeps the observation log
    observed,           \* per thread: the values its reads returned, in order
    faulted,            \* per thread: an iteration was cut short after its read
    \* The SQLite file behind ClipboardDataManager, statement by statement.
    db,                 \* committed rows of table clipboard_items, by rowid
    seq,                \* committed AUTOINCREMENT counter (sqlite_sequence)
    now,                \* CURRENT_TIMESTAMP, in whole seconds
    tie_order,          \* order in which the engine returns rows whose sort
                        \* keys are equal: by rowid "asc" or "desc"
    txn,                \* the open write transaction of the one writer
    call,               \* the data-manager call that returned in the step
                        \* just taken and what it returned; for a write that
                        \* failed, also the committed rows it started from
                        \* and the rows its transaction had reached
    last_write          \* the write that committed last: the item it saved
                        \* when it was save_clipboard_item, else the number
                        \* of rows its DELETE removed

vars == <<clipboard, copies, monitoring_active, pc, previous_content,
          seen_entries, current_content, clock, queue, clipboard_items, store,
          running, emitted, delivered, reads_after_stop, last_call, tracing,
          observed, faulted, db, seq, now, tie_order, txn, call, last_write,
          items_layout>>

envVars == <<clipboard, copies>>
loopVars == <<pc, previous_content, seen_entries, current_content>>
uiVars == <<clipboard_items, store, delivered, items_layout>>
logVars == <<tracing, observed, faulted>>
dbVars == <<db, seq, now, tie_order, txn, call, last_write>>
\* Everything but the database file and the clock that stamps the items.
appVars == <<clipboard, copies, monitoring_active, pc, previous_content,
             seen_entries, current_content, queue, clipboard_items, store,
             running, emitted, delivered, reads_after_stop, last_call, tracing,
             observed, faulted, items_layout>>

\* No write transaction is open.
NoTxn == [op |-> "none", work |-> <<>>, wseq |-> 0, todo |-> <<>>]
\* No call of the data manager has returned yet.
NoCall == [op |-> "none", arg |-> <<>>, ret |-> <<>>, failed |-> FALSE,
           raised |-> FALSE, before |-> <<>>, undone |-> <<>>]
\* The file as init_database leaves it the first time: an empty table.
init_database ==
    /\ db = <<>>
    /\ seq = 0
    /\ now = 0
    /\ txn = NoTxn
    /\ call = NoCall
    /\ last_write = [op |-> "none", item |-> <<>>, deleted |-> 0]

Alive(t) == pc[t] \in {"start", "while", "paste", "emit", "sleep", "except"}
\* A thread object is never reused: every spawning start takes a new one.
Free(t) == pc[t] = "none"

Init ==
    /\ clipboard \in Values
    /\ copies = 0
    /\ monitoring_active = FALSE
    /\ pc = [t \in Threads |-> "none"]
    /\ previous_content = [t \in Threads |-> Unset]
    /\ seen_entries = [t \in Threads |-> {}]
    /\ current_content = [t \in Threads |-> Unset]
    /\ clock = 0
    /\ queue = <<>>
    /\ clipboard_items = <<>>
    /\ items_layout = <<>>
    /\ store = <<>>
    /\ running = TRUE
    /\ emitted = <<>>
    /\ delivered = <<>>
    /\ reads_after_stop = [t \in Threads |-> 0]
    /\ last_call = "other"
    /\ tracing = FALSE
    /\ observed = [t \in Threads |-> <<>>]
    /\ faulted = [t \in Threads |-> FALSE]
    /\ init_database
    /\ tie_order = "asc"

\* ------------------------------------------------------------ environment
\* The user (or the Copy button of an item) puts a text on the OS clipboard.
Copy(v) ==
    /\ copies < MaxCopies
    /\ v # clipboard
    /\ clipboard' = v
    /\ copies' = copies + 1
    /\ last_call' = "other"
    /\ UNCHANGED dbVars
    /\ UNCHANGED <<monitoring_active, loopVars, clock, queue, uiVars, running,
                   emitted, reads_after_stop, logVars>>

\* --------------------------------------------------------- ClipboardMonitor
\* A stop that flips the flag instead of clearing it.
StopFlag_Toggle(active) == ~active

\* The value stop_monitoring leaves in monitoring_active.
StopFlag(active) == FALSE

\* A loop that never looks at the flag.
LoopCondition_Always(active) == TRUE

\* The test of the while statement.
LoopCondition(active) == active

\* The consecutive-only policy: compare with the last accepted value alone.
IsNew_LastOnly(cur, prev, seen) == cur # prev

\* The test that decides whether the value just read becomes an item.
IsNew(cur, prev, seen) == cur # prev /\ cur \notin seen

\* The item dictionary built for a new value (time and chars are derived).
NewItem(content, ts) ==
    [type |-> categorize_content(content), content |-> content, timestamp |-> ts]

\* A loop that leaves previous_content as it was.
LastAccepted_Kept(prev, cur) == prev

\* previous_content = current_content, right after the emit.
LastAccepted(prev, cur) == cur

\* An emit that waits until the receiver has nothing left to handle.
EmitReturns_WhenIdle(q) == q = <<>>

\* Signal.emit from the loop thread posts the notification and returns,
\* whatever is still waiting in the receiver's event queue.
EmitReturns(q) == TRUE

start_monitoring ==
    /\ running
    /\ IF ~monitoring_active
       THEN \E t \in Threads :
              /\ Free(t)
              /\ \A u \in Threads : Free(u) => t <= u
              /\ monitoring_active' = TRUE
              /\ pc' = [pc EXCEPT ![t] = "start"]
              /\ reads_after_stop' = [u \in Threads |-> 0]
              /\ UNCHANGED <<previous_content, seen_entries, current_content>>
       ELSE UNCHANGED <<monitoring_active, loopVars, reads_after_stop>>
    /\ last_call' = "other"
    /\ UNCHANGED dbVars
    /\ UNCHANGED <<envVars, clock, queue, uiVars, running, emitted, logVars>>

stop_monitoring ==
    /\ running
    /\ monitoring_active' = StopFlag(monitoring_active)
    /\ last_call' = IF last_call \in {"stop", "stop_again"}
                    THEN "stop_again" ELSE "stop"
    /\ UNCHANGED dbVars
    /\ UNCHANGED <<envVars, loopVars, clock, queue, uiVars, running, emitted,
                   reads_after_stop, logVars>>

\* Bookkeeping of a successful pyperclip.paste() by thread t.
CountRead(t) ==
    /\ reads_after_stop' =
          IF monitoring_active THEN reads_after_stop
          ELSE [reads_after_stop EXCEPT ![t] = @ + 1]
    /\ observed' =
          IF tracing /\ Len(observed[t]) <= MaxReads
          THEN [observed EXCEPT ![t] = Append(@, clipboard)]
          ELSE observed

\* Bookkeeping of an iteration that the except clause cut short.
CountFault(t) ==
    faulted' = IF tracing THEN [faulted EXCEPT ![t] = TRUE] ELSE faulted

\* Lines 48-52: the read made before the loop, outside the try block.
InitialPaste(t) ==
    /\ pc[t] = "start"
    /\ previous_content' = [previous_content EXCEPT ![t] = clipboard]
    /\ seen_entries' = [seen_entries EXCEPT ![t] = {clipboard}]
    /\ pc' = [pc EXCEPT ![t] = "while"]
    /\ CountRead(t)
    /\ last_call' = "other"
    /\ UNCHANGED dbVars
    /\ UNCHANGED <<envVars, monitoring_active, current_content, clock, queue,
                   uiVars, running, emitted, tracing, faulted>>

\* pyperclip.paste() (or os.makedirs) raises before the loop: nothing catches
\* it and the thread ends, monitoring_active still set.
InitialPasteFails(t) ==
    /\ pc[t] = "start"
    /\ pc' = [pc EXCEPT ![t] = "crashed"]
    /\ last_call' = "other"
    /\ UNCHANGED dbVars
    /\ UNCHANGED <<envVars, monitoring_active, previous_content, seen_entries,
                   current_content, clock, queue, uiVars, running, emitted,
                   reads_after_stop, logVars>>

\* while self.monitoring_active
WhileCheck(t) ==
    /\ pc[t] = "while"
    /\ pc' = [pc EXCEPT ![t] =
                IF LoopCondition(monitoring_active) THEN "paste" ELSE "done"]
    /\ last_call' = "other"
    /\ UNCHANGED dbVars
    /\ UNCHANGED <<envVars, monitoring_active, previous_content, seen_entries,
                   current_content, clock, queue, uiVars, running, emitted,
                   reads_after_stop, logVars>>

\* current_content = pyperclip.paste() and the comparison that follows it.
\* current_content is not read again once the iteration is over, so the model
\* keeps it only while the iteration still has to use it.
Paste(t) ==
    /\ pc[t] = "paste"
    /\ IF IsNew(clipboard, previous_content[t], seen_entries[t])
       THEN /\ current_content' = [current_content EXCEPT ![t] = clipboard]
            /\ pc' = [pc EXCEPT ![t] = "emit"]
       ELSE /\ current_content' = [current_content EXCEPT ![t] = Unset]
            /\ pc' = [pc EXCEPT ![t] = "sleep"]
    /\ CountRead(t)
    /\ last_call' = "other"
    /\ UNCHANGED dbVars
    /\ UNCHANGED <<envVars, monitoring_active, previous_content, seen_entries,
                   clock, queue, uiVars, running, emitted, tracing, faulted>>

\* pyperclip.paste() raises inside the try block.
PasteFails(t) ==
    /\ pc[t] = "paste"
    /\ pc' = [pc EXCEPT ![t] = "except"]
    /\ last_call' = "other"
    /\ UNCHANGED dbVars
    /\ UNCHANGED <<envVars, monitoring_active, previous_content, seen_entries,
                   current_content, clock, queue, uiVars, running, emitted,
                   reads_after_stop, logVars>>

\* Lines 61-77: classify, build the item, emit it, remember the value.
Emit(t) ==
    /\ pc[t] = "emit"
    /\ EmitReturns(queue)
    /\ LET item == NewItem(current_content[t], clock + 1) IN
         /\ clock' = clock + 1
         /\ queue' = Append(queue, item)
         /\ emitted' = Append(emitted, item)
    /\ previous_content' =
          [previous_content EXCEPT ![t] = LastAccepted(@, current_content[t])]
    /\ seen_entries' = [seen_entries EXCEPT ![t] = @ \cup {current_content[t]}]
    /\ current_content' = [current_content EXCEPT ![t] = Unset]
    /\ pc' = [pc EXCEPT ![t] = "sleep"]
    /\ last_call' = "other"
    /\ UNCHANGED dbVars
    /\ UNCHANGED <<envVars, monitoring_active, uiVars, running,
                   reads_after_stop, logVars>>

\* A loop that adds the value to seen_entries before it classifies it.
SeenAtFailure_Remembered(seen, cur) == seen \cup {cur}

\* seen_entries when line 64 or line 74 raises: line 77 has not run.
SeenAtFailure(seen, cur) == seen

\* The classifier call (or the emit) raises: the except clause takes over
\* before previous_content and seen_entries are touched.
EmitFails(t) ==
    /\ pc[t] = "emit"
    /\ seen_entries' =
          [seen_entries EXCEPT ![t] = SeenAtFailure(@, current_content[t])]
    /\ current_content' = [current_content EXCEPT ![t] = Unset]
    /\ pc' = [pc EXCEPT ![t] = "except"]
    /\ CountFault(t)
    /\ last_call' = "other"
    /\ UNCHANGED dbVars
    /\ UNCHANGED <<envVars, monitoring_active, previous_content,
                   clock, queue, uiVars, running, emitted, reads_after_stop,
                   tracing, observed>>

\* time.sleep(0.5) at the end of an iteration.
Sleep(t) ==
    /\ pc[t] = "sleep"
    /\ pc' = [pc EXCEPT ![t] = "while"]
    /\ last_call' = "other"
    /\ UNCHANGED dbVars
    /\ UNCHANGED <<envVars, monitoring_active, previous_content, seen_entries,
                   current_content, clock, queue, uiVars, running, emitted,
                   reads_after_stop, logVars>>

\* except Exception: print, time.sleep(1), next iteration.
Except(t) ==
    /\ pc[t] = "except"
    /\ pc' = [pc EXCEPT ![t] = "while"]
    /\ last_call' = "other"
    /\ UNCHANGED dbVars
    /\ UNCHANGED <<envVars, monitoring_active, previous_content, seen_entries,
                   current_content, clock, queue, uiVars, running, emitted,
                   reads_after_stop, logVars>>

\* The steps of thread t that raise nothing.
Progress(t) ==
    \/ InitialPaste(t)
    \/ WhileCheck(t)
    \/ Paste(t)
    \/ Emit(t)
    \/ Sleep(t)
    \/ Except(t)

\* ---------------------------------------------------------- main window
\* save_clipboard_data: delete every row and insert the list again, in one
\* transaction; an exception is printed and the transaction rolled back.
save_clipboard_data(st, items, ok) == IF ok THEN items ELSE st

\* QVBoxLayout.insertWidget(index, widget), counting the widgets from the
\* top; the stretch that setup_ui adds stays below all of them.
insertWidget(layout, index, item) ==
    SubSeq(layout, 1, index) \o <<item>> \o SubSeq(layout, index + 1, Len(layout))

\* clear_items_layout: take widgets off the top until only the stretch is left.
clear_items_layout(layout) == <<>>

\* A slot that is handed the newest notification first.
NextNotification_Newest(q) == q[Len(q)]

\* The slot connected to new_clipboard_content takes the oldest notification.
NextNotification(q) == Head(q)

\* A handler that saves the list without the item it was given.
InsertItem_Lost(items, item) == items

\* The list after the handler inserted the item.
InsertItem(items, item) == <<item>> \o items

add_clipboard_item ==
    /\ running
    /\ queue # <<>>
    /\ LET item == NextNotification(queue) IN
         /\ queue' = Tail(queue)
         /\ clipboard_items' = InsertItem(clipboard_items, item)
         /\ items_layout' = insertWidget(items_layout, 0, item)
         /\ delivered' = Append(delivered, item)
    /\ \E ok \in BOOLEAN :
         store' = save_clipboard_data(store, clipboard_items', ok)
    /\ last_call' = "other"
    /\ UNCHANGED dbVars
    /\ UNCHANGED <<envVars, monitoring_active, loopVars, clock, running,
                   emitted, reads_after_stop, logVars>>

clear_clipboard_history ==
    /\ running
    /\ clipboard_items' = <<>>
    /\ items_layout' = clear_items_layout(items_layout)
    /\ \E ok \in BOOLEAN :
         store' = save_clipboard_data(store, clipboard_items', ok)
    /\ last_call' = "other"
    /\ UNCHANGED dbVars
    /\ UNCHANGED <<envVars, monitoring_active, loopVars, clock, queue,
                   delivered, running, emitted, reads_after_stop, logVars>>

\* A Copy button that puts the category of its item on the clipboard.
CopiedText_Type(item) == <<item.type>>

\* The text the Copy button of an item hands to pyperclip.copy.
CopiedText(item) == item.content

\* A click on the Copy button of the i-th widget from the top.
copy_btn_clicked(i) ==
    /\ running
    /\ i \in 1..Len(items_layout)
    /\ copies < MaxCopies
    /\ clipboard' = CopiedText(items_layout[i])
    /\ copies' = copies + 1
    /\ last_call' = "recopy"
    /\ UNCHANGED dbVars
    /\ UNCHANGED <<monitoring_active, loopVars, clock, queue, uiVars, running,
                   emitted, reads_after_stop, logVars>>

\* Save, stop the monitor, leave the event loop: nothing is handled afterwards.
quit_application ==
    /\ running
    /\ \E ok \in BOOLEAN :
         store' = save_clipboard_data(store, clipboard_items, ok)
    /\ monitoring_active' = StopFlag(monitoring_active)
    /\ running' = FALSE
    /\ last_call' = "other"
    /\ UNCHANGED dbVars
    /\ UNCHANGED <<envVars, loopVars, clock, queue, clipboard_items, delivered,
                   items_layout, emitted, reads_after_stop, logVars>>

\* ------------------------------------------------------------ specification
Next ==
    \/ \E v \in Values : Copy(v)
    \/ start_monitoring
    \/ stop_monitoring
    \/ \E t \in Threads : InitialPaste(t)
    \/ \E t \in Threads : InitialPasteFails(t)
    \/ \E t \in Threads : WhileCheck(t)
    \/ \E t \in Threads : Paste(t)
    \/ \E t \in Threads : PasteFails(t)
    \/ \E t \in Threads : Emit(t)
    \/ \E t \in Threads : EmitFails(t)
    \/ \E t \in Threads : Sleep(t)
    \/ \E t \in Threads : Except(t)
    \/ add_clipboard_item

\* Every call of the monitor's interface in any order, restarts included,
\* with the main window handling the notifications.
Spec == Init /\ [][Next]_vars

\* One run of the application: the main window starts the monitor once and
\* stops it when the user quits; start is not called again after a stop.
FirstStart == monitoring_active \/ \A t \in Threads : pc[t] = "none"

RunNext ==
    \/ \E v \in Values : Copy(v)
    \/ (FirstStart /\ start_monitoring)
    \/ stop_monitoring
    \/ \E t \in Threads : InitialPaste(t)
    \/ \E t \in Threads : InitialPasteFails(t)
    \/ \E t \in Threads : WhileCheck(t)
    \/ \E t \in Threads : Paste(t)
    \/ \E t \in Threads : PasteFails(t)
    \/ \E t \in Threads : Emit(t)
    \/ \E t \in Threads : EmitFails(t)
    \/ \E t \in Threads : Sleep(t)
    \/ \E t \in Threads : Except(t)
    \/ add_clipboard_item
    \/ clear_clipboard_history
    \/ \E i \in 1..MaxCopies : copy_btn_clicked(i)
    \/ quit_application

RunSpec == Init /\ [][RunNext]_vars

\* The loop threads are scheduled: a step that is ready is taken in the end.
\* Nothing obliges the user, the event loop, or an exception to happen.
LiveRunSpec == RunSpec /\ \A t \in Threads : WF_vars(Progress(t))

\* One run with the observation log switched on.
TraceInit ==
    /\ clipboard \in Values
    /\ copies = 0
    /\ monitoring_active = FALSE
    /\ pc = [t \in Threads |-> "none"]
    /\ previous_content = [t \in Threads |-> Unset]
    /\ seen_entries = [t \in Threads |-> {}]
    /\ current_content = [t \in Threads |-> Unset]
    /\ clock = 0
    /\ queue = <<>>
    /\ clipboard_items = <<>>
    /\ items_layout = <<>>
    /\ store = <<>>
    /\ running = TRUE
    /\ emitted = <<>>
    /\ delivered = <<>>
    /\ reads_after_stop = [t \in Threads |-> 0]
    /\ last_call = "other"
    /\ tracing = TRUE
    /\ observed = [t \in Threads |-> <<>>]
    /\ faulted = [t \in Threads |-> FALSE]
    /\ init_database
    /\ tie_order = "asc"

\* The run is watched while the monitor is on: no stop, clear or quit.
TraceNext ==
    \/ \E v \in Values : Copy(v)
    \/ (FirstStart /\ start_monitoring)
    \/ \E t \in Threads : InitialPaste(t)
    \/ \E t \in Threads : InitialPasteFails(t)
    \/ \E t \in Threads : WhileCheck(t)
    \/ \E t \in Threads : Paste(t)
    \/ \E t \in Threads : PasteFails(t)
    \/ \E t \in Threads : Emit(t)
    \/ \E t \in Threads : EmitFails(t)
    \/ \E t \in Threads : Sleep(t)
    \/ \E t \in Threads : Except(t)
    \/ add_clipboard_item

TraceSpec == TraceInit /\ [][TraceNext]_vars

\* ------------------------------------------------- ClipboardDataManager
\* The data manager on its own: one writer, whose transactions run statement
\* by statement, and readers whose queries run between those statements.
MaxIds == 3
\* The last second of the run.
MaxNow == 1
\* Longest list handed to save_clipboard_data.
MaxList == 2

StoredValues == {ValA, ValB}
SearchTerms == {<<"A">>, <<"d", "e", "f", " ">>, <<"%">>, <<"_">>}
Types == {"Code", "Plaintext"}
\* The limit argument: <<>> when it is left out, <<n>> when n is passed.
Limits == {<<>>, <<0>>, <<1>>, <<2>>}
TieOrders == {"asc", "desc"}
ReadOps == {"load_clipboard_data", "search_clipboard_items", "filter_by_type",
            "get_item_count"}
WriteOps == {"save_clipboard_item", "clear_all_items", "save_clipboard_data"}

Min(a, b) == IF a < b THEN a ELSE b

\* The row an INSERT adds: id from AUTOINCREMENT, created_at from
\* CURRENT_TIMESTAMP (time_formatted and char_count follow from the rest).
InsertRow(table, lastid, item, t) ==
    Append(table, [id |-> lastid + 1, content |-> item.content,
                   type |-> item.type, timestamp |-> item.timestamp,
                   created_at |-> t])

\* The dictionary the read methods build from a row.
RowDict(row) ==
    [type |-> row.type, content |-> row.content, timestamp |-> row.timestamp]

RowDicts(rows) == [i \in 1..Len(rows) |-> RowDict(rows[i])]

\* ORDER BY created_at DESC: later seconds first; the statement names no
\* second key, so rows of one second come in the order the engine has them.
ComesBefore(q, r, ord) ==
    \/ q.created_at > r.created_at
    \/ /\ q.created_at = r.created_at
       /\ IF ord = "asc" THEN q.id < r.id ELSE q.id > r.id

OrderByCreatedAtDesc(rows, ord) ==
    [i \in 1..Len(rows) |->
        CHOOSE r \in Range(rows) :
            Cardinality({q \in Range(rows) : ComesBefore(q, r, ord)}) = i - 1]

\* if limit: a limit that is left out, or that is 0, adds no LIMIT clause.
LimitClause(limit) == limit # <<>> /\ limit[1] # 0

load_clipboard_data(rows, limit, ord) ==
    LET all == OrderByCreatedAtDesc(rows, ord) IN
      RowDicts(IF LimitClause(limit)
               THEN SubSeq(all, 1, Min(limit[1], Len(all)))
               ELSE all)

\* Case folding of one character, as LIKE and str.lower do it for ASCII.
Lower(ch) == IF ch = "A" THEN "a" ELSE ch

\* str.lower()
LowerAll(text) == [i \in 1..Len(text) |-> Lower(text[i])]

\* term occurs in text as a run of characters, whatever the case of letters.
ContainsIgnoringCase(text, term) ==
    \E i \in 1..(Len(text) + 1) :
        /\ i + Len(term) - 1 <= Len(text)
        /\ SubSeq(LowerAll(text), i, i + Len(term) - 1) = LowerAll(term)

\* SQLite's LIKE: % stands for any run of characters, _ for any one, and
\* letters match whatever their case.
RECURSIVE Like(_, _)
Like(pattern, text) ==
    IF pattern = <<>> THEN text = <<>>
    ELSE IF Head(pattern) = "%"
         THEN \/ Like(Tail(pattern), text)
              \/ text # <<>> /\ Like(pattern, Tail(text))
         ELSE /\ text # <<>>
              /\ \/ Head(pattern) = "_"
                 \/ Lower(Head(pattern)) = Lower(Head(text))
              /\ Like(Tail(pattern), Tail(text))

\* WHERE content LIKE ? with the parameter f"%{search_term}%".
search_clipboard_items(rows, search_term, ord) ==
    RowDicts(OrderByCreatedAtDesc(
        SelectSeq(rows, LAMBDA r : Like(<<"%">> \o search_term \o <<"%">>,
                                        r.content)), ord))

\* A filter that lets every row through.
TypeMatches_Any(row, content_type) == TRUE

\* WHERE type = ?
TypeMatches(row, content_type) == row.type = content_type

filter_by_type(rows, content_type, ord) ==
    RowDicts(OrderByCreatedAtDesc(
        SelectSeq(rows, LAMBDA r : TypeMatches(r, content_type)), ord))

\* SELECT COUNT(*) FROM clipboard_items
get_item_count(rows) == Len(rows)

\* What a read method returns when the query went through.
ReadResult(op, arg, rows, ord) ==
    CASE op = "load_clipboard_data" -> load_clipboard_data(rows, arg, ord)
      [] op = "search_clipboard_items" -> search_clipboard_items(rows, arg, ord)
      [] op = "filter_by_type" -> filter_by_type(rows, arg, ord)
      [] op = "get_item_count" -> get_item_count(rows)

\* Every read method wraps its body in try / except Exception, so nothing
\* it hits reaches the caller as an exception.
ExceptionEscapes(op) == FALSE

\* except Exception: print the error, return [] (0 from get_item_count).
ReadFailureResult(op) == IF op = "get_item_count" THEN 0 ELSE <<>>

\* What a write method hands back: save_clipboard_item and clear_all_items
\* return True or False, save_clipboard_data has no return statement.
WriteResult(op, ok) ==
    IF op = "save_clipboard_data" THEN "None"
    ELSE IF ok THEN "True" ELSE "False"

\* A DELETE that leaves the oldest row behind.
DeleteAll_ButOldest(table) == IF table = <<>> THEN <<>> ELSE <<Head(table)>>

\* DELETE FROM clipboard_items
DeleteAll(table) == <<>>

\* A connection that keeps what the failed transaction had already written.
Rollback_KeepsWork(committed, work) == work

\* Leaving the with block on an exception rolls the transaction back.
Rollback(committed, work) == committed

\* A reader that sees the rows of the transaction still in progress.
ReaderView_Dirty(committed, t) == IF t.op = "none" THEN committed ELSE t.work

\* A query reads the committed rows: another connection's open transaction
\* is invisible to it.
ReaderView(committed, t) == committed

\* Lists the caller may hand to save_clipboard_data. The caller stamps its
\* items with the time it built them: here the count of rows written so far,
\* so that no two stored items carry the same stamp.
ItemLists ==
    UNION {[1..n -> StoredValues] : n \in 0..MaxList}

StampedItems(contents, lastid) ==
    [i \in 1..Len(contents) |-> NewItem(contents[i], lastid + i)]

\* The clock of the machine reaches the next second.
Tick ==
    /\ now < MaxNow
    /\ now' = now + 1
    /\ call' = NoCall
    /\ UNCHANGED <<appVars, clock, db, seq, tie_order, txn, last_write>>

\* save_clipboard_item up to its INSERT.
SaveItemInsert(v) ==
    /\ txn.op = "none"
    /\ seq < MaxIds
    /\ txn' = [op |-> "save_clipboard_item",
               work |-> InsertRow(db, seq, NewItem(v, seq + 1), now),
               wseq |-> seq + 1, todo |-> <<>>]
    /\ call' = NoCall
    /\ UNCHANGED <<appVars, clock, db, seq, now, tie_order, last_write>>

\* clear_all_items up to its DELETE.
ClearAllDelete ==
    /\ txn.op = "none"
    /\ txn' = [op |-> "clear_all_items", work |-> DeleteAll(db),
               wseq |-> seq, todo |-> <<>>]
    /\ call' = NoCall
    /\ UNCHANGED <<appVars, clock, db, seq, now, tie_order, last_write>>

\* save_clipboard_data up to its DELETE.
SaveDataDelete(contents) ==
    /\ txn.op = "none"
    /\ seq + Len(contents) <= MaxIds
    /\ txn' = [op |-> "save_clipboard_data", work |-> DeleteAll(db),
               wseq |-> seq, todo |-> StampedItems(contents, seq)]
    /\ call' = NoCall
    /\ UNCHANGED <<appVars, clock, db, seq, now, tie_order, last_write>>

\* One turn of the for loop of save_clipboard_data: INSERT the next item.
SaveDataInsert ==
    /\ txn.op = "save_clipboard_data"
    /\ txn.todo # <<>>
    /\ txn' = [txn EXCEPT !.work = InsertRow(txn.work, txn.wseq,
                                             Head(txn.todo), now),
                          !.wseq = @ + 1,
                          !.todo = Tail(@)]
    /\ call' = NoCall
    /\ UNCHANGED <<appVars, clock, db, seq, now, tie_order, last_write>>

\* conn.commit() and the return that follows it.
Commit ==
    /\ txn.op # "none"
    /\ txn.todo = <<>>
    /\ db' = txn.work
    /\ seq' = txn.wseq
    /\ txn' = NoTxn
    /\ last_write' = [op |-> txn.op,
                      item |-> IF txn.op = "save_clipboard_item"
                               THEN <<RowDict(txn.work[Len(txn.work)])>>
                               ELSE <<>>,
                      deleted |-> IF txn.op = "save_clipboard_item"
                                  THEN 0 ELSE Len(db)]
    /\ call' = [op |-> txn.op, arg |-> <<>>,
                ret |-> WriteResult(txn.op, TRUE), failed |-> FALSE,
                raised |-> FALSE, before |-> <<>>, undone |-> <<>>]
    /\ UNCHANGED <<appVars, clock, now, tie_order>>

\* A statement or the commit raises: the except clause of the method.
WriteFails ==
    /\ txn.op # "none"
    /\ db' = Rollback(db, txn.work)
    /\ txn' = NoTxn
    /\ call' = [op |-> txn.op, arg |-> <<>>,
                ret |-> WriteResult(txn.op, FALSE), failed |-> TRUE,
                raised |-> FALSE, before |-> db, undone |-> txn.work]
    /\ UNCHANGED <<appVars, clock, seq, now, tie_order, last_write>>

\* A read method whose query goes through.
Read(op, arg) ==
    /\ call' = [op |-> op, arg |-> arg,
                ret |-> ReadResult(op, arg, ReaderView(db, txn), tie_order),
                failed |-> FALSE, raised |-> FALSE,
                before |-> <<>>, undone |-> <<>>]
    /\ UNCHANGED <<appVars, clock, db, seq, now, tie_order, txn, last_write>>

\* A read method whose connection or query raises, whatever it was asked.
ReadFails(op) ==
    /\ call' = [op |-> op, arg |-> <<>>, ret |-> ReadFailureResult(op),
                failed |-> TRUE, raised |-> ExceptionEscapes(op),
                before |-> <<>>, undone |-> <<>>]
    /\ UNCHANGED <<appVars, clock, db, seq, now, tie_order, txn, last_write>>

StoreInit ==
    /\ clipboard = ValA
    /\ copies = 0
    /\ monitoring_active = FALSE
    /\ pc = [t \in Threads |-> "none"]
    /\ previous_content = [t \in Threads |-> Unset]
    /\ seen_entries = [t \in Threads |-> {}]
    /\ current_content = [t \in Threads |-> Unset]
    /\ clock = 0
    /\ queue = <<>>
    /\ clipboard_items = <<>>
    /\ items_layout = <<>>
    /\ store = <<>>
    /\ running = TRUE
    /\ emitted = <<>>
    /\ delivered = <<>>
    /\ reads_after_stop = [t \in Threads |-> 0]
    /\ last_call = "other"
    /\ tracing = FALSE
    /\ observed = [t \in Threads |-> <<>>]
    /\ faulted = [t \in Threads |-> FALSE]
    /\ init_database
    /\ tie_order \in TieOrders

StoreNext ==
    \/ Tick
    \/ \E v \in StoredValues : SaveItemInsert(v)
    \/ ClearAllDelete
    \/ \E contents \in ItemLists : SaveDataDelete(contents)
    \/ SaveDataInsert
    \/ Commit
    \/ WriteFails
    \/ \E limit \in Limits : Read("load_clipboard_data", limit)
    \/ \E term \in SearchTerms : Read("search_clipboard_items", term)
    \/ \E content_type \in Types : Read("filter_by_type", content_type)
    \/ Read("get_item_count", <<>>)
    \/ \E op \in ReadOps : ReadFails(op)

\* Every call of the data manager in any order, by one writer and by readers
\* that run between the writer's statements, on a file that starts empty.
StoreSpec == StoreInit /\ [][StoreNext]_vars

\* ------------------------------------- the main window on the SQLite file
\* ClipboardManager with its data manager: the handlers of the window, each
\* with the save_clipboard_data call it ends in, over runs of the
\* application that follow one another on the same file.
MaxSeq == 6

\* The for loop of save_clipboard_data: one INSERT per item, in list order.
\* The first k of them run in second t, the others after the clock has moved.
RECURSIVE InsertAll(_, _, _, _, _)
InsertAll(table, lastid, items, t, k) ==
    IF items = <<>> THEN table
    ELSE InsertAll(InsertRow(table, lastid, Head(items),
                             IF k > 0 THEN t ELSE t + 1),
                   lastid + 1, Tail(items), t, k - 1)

\* self.data_manager.save_clipboard_data(items) as a handler calls it: the
\* rewrite commits, or it fails, is rolled back and nothing is reported.
SaveFromWindow(items) ==
    \/ UNCHANGED <<db, seq, now>>
    \/ \E k \in 0..Len(items) :
         /\ k < Len(items) => now < MaxNow
         /\ db' = InsertAll(DeleteAll(db), seq, items, now, k)
         /\ seq' = seq + Len(items)
         /\ now' = IF k < Len(items) THEN now + 1 ELSE now

\* display_clipboard_items: empty the layout, then insert a widget at
\* index 0 for each item of the list, in list order.
RECURSIVE InsertEachAtTop(_, _)
InsertEachAtTop(layout, items) ==
    IF items = <<>> THEN layout
    ELSE InsertEachAtTop(insertWidget(layout, 0, Head(items)), Tail(items))

Displayed(items) == InsertEachAtTop(clear_items_layout(<<>>), items)

winFrame == <<clipboard, copies, monitoring_active, pc, previous_content,
              seen_entries, current_content, queue, store, emitted, delivered,
              reads_after_stop, last_call, tracing, observed, faulted,
              tie_order, txn, call, last_write>>

\* ClipboardManager.__init__: load the history and show it.
WindowInit ==
    /\ ~running
    /\ running' = TRUE
    /\ \E ok \in BOOLEAN :
         clipboard_items' =
            IF ok THEN load_clipboard_data(db, <<>>, tie_order)
            ELSE ReadFailureResult("load_clipboard_data")
    /\ items_layout' = Displayed(clipboard_items')
    /\ UNCHANGED <<winFrame, clock, db, seq, now>>

\* add_clipboard_item, handed an item the monitor built from the text v.
WindowAdd(v) ==
    /\ running
    /\ clock < MaxCopies
    /\ seq + Len(clipboard_items) + 1 <= MaxSeq
    /\ LET item == NewItem(v, clock + 1) IN
         /\ clock' = clock + 1
         /\ clipboard_items' = InsertItem(clipboard_items, item)
         /\ items_layout' = insertWidget(items_layout, 0, item)
    /\ SaveFromWindow(clipboard_items')
    /\ UNCHANGED <<winFrame, running>>

\* clear_clipboard_history
WindowClear ==
    /\ running
    /\ clipboard_items' = <<>>
    /\ items_layout' = clear_items_layout(items_layout)
    /\ SaveFromWindow(clipboard_items')
    /\ UNCHANGED <<winFrame, clock, running>>

\* display_clipboard_items
WindowDisplay ==
    /\ running
    /\ items_layout' = Displayed(clipboard_items)
    /\ UNCHANGED <<winFrame, clock, running, clipboard_items, db, seq, now>>

\* filter_items(filter_type)
WindowFilter(filter_type) ==
    /\ running
    /\ items_layout' =
          Displayed(SelectSeq(clipboard_items,
                              LAMBDA item : \/ filter_type = "All"
                                            \/ item.type = filter_type))
    /\ UNCHANGED <<winFrame, clock, running, clipboard_items, db, seq, now>>

\* search_items, with search_text in the search bar.
WindowSearch(search_text) ==
    /\ running
    /\ items_layout' =
          Displayed(SelectSeq(clipboard_items,
                              LAMBDA item :
                                  ContainsIgnoringCase(item.content,
                                                       search_text)))
    /\ UNCHANGED <<winFrame, clock, running, clipboard_items, db, seq, now>>

\* quit_application: save and leave; the lists of the process are gone.
WindowQuit ==
    /\ running
    /\ seq + Len(clipboard_items) <= MaxSeq
    /\ SaveFromWindow(clipboard_items)
    /\ running' = FALSE
    /\ clipboard_items' = <<>>
    /\ items_layout' = <<>>
    /\ UNCHANGED <<winFrame, clock>>

\* The clock of the machine moves on between two handlers.
WindowTick ==
    /\ now < MaxNow
    /\ now' = now + 1
    /\ UNCHANGED <<winFrame, clock, running, clipboard_items, items_layout,
                   db, seq>>

WindowStart ==
    /\ clipboard = ValA
    /\ copies = 0
    /\ monitoring_active = FALSE
    /\ pc = [t \in Threads |-> "none"]
    /\ previous_content = [t \in Threads |-> Unset]
    /\ seen_entries = [t \in Threads |-> {}]
    /\ current_content = [t \in Threads |-> Unset]
    /\ clock = 0
    /\ queue = <<>>
    /\ clipboard_items = <<>>
    /\ items_layout = <<>>
    /\ store = <<>>
    /\ running = FALSE
    /\ emitted = <<>>
    /\ delivered = <<>>
    /\ reads_after_stop = [t \in Threads |-> 0]
    /\ last_call = "other"
    /\ tracing = FALSE
    /\ observed = [t \in Threads |-> <<>>]
    /\ faulted = [t \in Threads |-> FALSE]
    /\ init_database
    /\ tie_order \in TieOrders

WindowNext ==
    \/ WindowInit
    \/ \E v \in StoredValues : WindowAdd(v)
    \/ WindowClear
    \/ WindowDisplay
    \/ \E filter_type \in Types \cup {"All"} : WindowFilter(filter_type)
    \/ \E search_text \in {<<>>, <<"d", "e", "f", " ">>} : WindowSearch(search_text)
    \/ WindowQuit
    \/ WindowTick

\* Runs of the application one after another on one database file.
WindowSpec == WindowStart /\ [][WindowNext]_vars

\* ------------------------------------------------------ the classifiers
\* The two rule-based classifiers of the repository, each applied to texts
\* put together from a few words.
MaxWords == 3

Words ==
    {<<"a">>,
     <<" ">>,
     <<"d", "e", "f", " ">>,
     <<"{">>,
     <<"\\", "f", "r", "a", "c">>,
     <<"\\", "b", "e", "g", "i", "n", "{">>,
     <<"\"">>,
     <<"h", "t", "t", "p", ":", "/", "/">>,
     <<"w", "w", "w", ".">>,
     <<".">>,
     <<"=">>}

RECURSIVE Flatten(_)
Flatten(ws) == IF ws = <<>> THEN <<>> ELSE Head(ws) \o Flatten(Tail(ws))

Texts == {Flatten(ws) : ws \in UNION {[1..n -> Words] : n \in 0..MaxWords}}

ClassifyInit ==
    /\ clipboard \in Texts
    /\ copies = 0
    /\ monitoring_active = FALSE
    /\ pc = [t \in Threads |-> "none"]
    /\ previous_content = [t \in Threads |-> Unset]
    /\ seen_entries = [t \in Threads |-> {}]
    /\ current_content = [t \in Threads |-> Unset]
    /\ clock = 0
    /\ queue = <<>>
    /\ clipboard_items = <<>>
    /\ items_layout = <<>>
    /\ store = <<>>
    /\ running = TRUE
    /\ emitted = <<>>
    /\ delivered = <<>>
    /\ reads_after_stop = [t \in Threads |-> 0]
    /\ last_call = "other"
    /\ tracing = FALSE
    /\ observed = [t \in Threads |-> <<>>]
    /\ faulted = [t \in Threads |-> FALSE]
    /\ init_database
    /\ tie_order = "asc"

\* categorize_content(content) is called on the text and returns.
CallCategorizeContent ==
    /\ call.op = "none"
    /\ call' = [NoCall EXCEPT !.op = "categorize_content",
                              !.arg = clipboard,
                              !.ret = categorize_content(clipboard)]
    /\ UNCHANGED <<appVars, clock, db, seq, now, tie_order, txn, last_write>>

\* categorize_text(text) is called on the text and returns.
CallCategorizeText ==
    /\ call.op = "none"
    /\ call' = [NoCall EXCEPT !.op = "categorize_text",
                              !.arg = clipboard,
                              !.ret = categorize_text(clipboard)]
    /\ UNCHANGED <<appVars, clock, db, seq, now, tie_order, txn, last_write>>

ClassifyNext ==
    \/ CallCategorizeContent
    \/ CallCategorizeText

ClassifySpec == ClassifyInit /\ [][ClassifyNext]_vars

\* ===================================================================== C1
ItemContents(items) == [i \in 1..Len(items) |-> items[i].content]

Occurrences(s, v) == Cardinality({i \in 1..Len(s) : s[i] = v})

\* Thread t read I before the loop and then X, X, Y, X in four polls, with
\* X different from I and from Y, and the fourth iteration is over.
SawXXYX(t) ==
    /\ Len(observed[t]) = 5
    /\ observed[t][2] # observed[t][1]
    /\ observed[t][3] = observed[t][2]
    /\ observed[t][4] # observed[t][2]
    /\ observed[t][5] = observed[t][2]
    /\ pc[t] \in {"sleep", "except", "while", "paste", "done"}

C2_NoAdjacentDuplicates ==
    \A i \in 1..(Len(clipboard_items) - 1) :
        clipboard_items[i].content # clipboard_items[i + 1].content

C4_NoReadAfterStop ==
    \A t \in Threads : reads_after_stop[t] = 0

\* C4 amended: after stop_monitoring has returned, and for as long as
\* monitoring_active stays false, a loop reads the clipboard at most once
\* more (the iteration it had already entered, or the read before the loop).
C4_OneReadAfterStop ==
    \A t \in Threads : reads_after_stop[t] <= 1

C4_Witness ==
    \E t \in Threads : reads_after_stop[t] = 1 /\ pc[t] = "done"

\* ===================================================================== C5
\* C5: once the flag has been cleared while a loop is alive, and start is not
\* called again, that loop terminates.
C5_StopTerminates ==
    \A t \in Threads : (Alive(t) /\ ~monitoring_active) ~> ~Alive(t)

C5_Witness ==
    \E t \in Threads :
        pc[t] = "done" /\ ~monitoring_active /\ previous_content[t] # Unset

\* ===================================================================== C6
\* C6: a stop_monitoring call leaves the monitor not running in whatever state
\* it is made, before any start included, and one that directly follows
\* another changes nothing.
C6_StopIdempotent ==
    [][ last_call' \in {"stop", "stop_again"} =>
            /\ monitoring_active' = FALSE
            /\ last_call' = "stop_again" =>
                  UNCHANGED <<envVars, monitoring_active, loopVars, clock,
                              queue, uiVars, running, emitted>>
      ]_vars

C6_Witness ==
    /\ last_call = "stop_again"
    /\ \A t \in Threads : pc[t] = "none"

\* ===================================================================== C7
\* C7: at most one polling loop is executing at any time.
C7_AtMostOneLoop ==
    Cardinality({t \in Threads : Alive(t)}) <= 1

\* ===================================================================== C8
\* C8: no failed clipboard read ends a polling loop, the read made when the
\* loop starts included.
C8_ReadFailureNeverTerminates ==
    \A t \in Threads : pc[t] # "crashed"

\* ===================================================================== C9
\* C9: the subscriber receives each emitted entry at most once and in
\* emission order: what was delivered is a prefix of what was emitted, and no
\* entry was emitted twice.
C9_DeliveredInOrder ==
    /\ Len(delivered) <= Len(emitted)
    /\ delivered = SubSeq(emitted, 1, Len(delivered))
    /\ \A i, j \in 1..Len(emitted) : i # j => emitted[i] # emitted[j]

C9_Witness ==
    /\ Len(delivered) = 2
    /\ delivered[1].timestamp < delivered[2].timestamp

\* ==================================================================== C10
\* C10: a loop that has reached its publish step gets past it and reaches the
\* next test of its while loop (where it polls again unless it was stopped),
\* whether or not the pending notifications are ever handled.
C10_PublishNeverBlocks ==
    \A t \in Threads : (pc[t] = "emit") ~> (pc[t] \in {"paste", "done"})

C10_Witness ==
    \E t \in Threads :
        /\ pc[t] = "paste"
        /\ Len(queue) = 2
        /\ delivered = <<>>

\* ==================================================================== C11
\* The rows in the order of their INSERTs, the latest first.
LatestFirst(table) ==
    RowDicts([i \in 1..Len(table) |-> table[Len(table) + 1 - i]])

\* C11: load_clipboard_data() without a limit returns every entry whose
\* append was committed before the read, each exactly once, the most recent
\* first, entries of one capture time in the order of their insertion
\* sequence (the later insert first).
C11_ListMostRecentFirst ==
    (call.op = "load_clipboard_data" /\ ~call.failed /\ call.arg = <<>>)
        => call.ret = LatestFirst(db)

\* ==================================================================== C12
\* C12: once save_clipboard_item(e) has returned True, and before any other
\* write, load_clipboard_data(1) returns exactly one entry, and it carries
\* the content, the category and the timestamp of e.
C12_RoundTrip ==
    (/\ call.op = "load_clipboard_data"
     /\ ~call.failed
     /\ call.arg = <<1>>
     /\ last_write.op = "save_clipboard_item")
        => call.ret = last_write.item

\* ==================================================================== C13
\* C13: for every integer limit >= 0, load_clipboard_data(limit) returns at
\* most limit entries, and they are the first limit entries of the list the
\* call without a limit returns.
C13_LimitCaps ==
    (call.op = "load_clipboard_data" /\ ~call.failed /\ call.arg # <<>>)
        => LET all == load_clipboard_data(db, <<>>, tie_order) IN
             /\ Len(call.ret) <= call.arg[1]
             /\ call.ret = SubSeq(all, 1, Min(call.arg[1], Len(all)))

\* ==================================================================== C14
\* C14: once clear_all_items() has returned True, and as long as no write
\* has been committed since, get_item_count() returns 0 and
\* load_clipboard_data() returns the empty list.
C14_ClearThenEmpty ==
    last_write.op = "clear_all_items"
        => /\ call.op = "get_item_count" => call.ret = 0
           /\ call.op = "load_clipboard_data" => call.ret = <<>>

\* A history of two entries was cleared and then counted.
C14_Witness ==
    /\ last_write.op = "clear_all_items"
    /\ last_write.deleted = 2
    /\ call.op = "get_item_count"
    /\ ~call.failed
    /\ call.ret = 0

\* ==================================================================== C15
\* C15: filter_by_type(c) returns exactly the entries of load_clipboard_data()
\* whose category is c, in the order they have in that list.
C15_FilterIsSublist ==
    (call.op = "filter_by_type" /\ ~call.failed)
        => call.ret = SelectSeq(load_clipboard_data(db, <<>>, tie_order),
                                LAMBDA d : d.type = call.arg)

\* A filter that kept two entries of three, stored in different seconds.
C15_Witness ==
    /\ call.op = "filter_by_type"
    /\ ~call.failed
    /\ Len(call.ret) = 2
    /\ Len(db) = 3
    /\ \E i, j \in 1..Len(db) :
         /\ db[i].type = call.arg
         /\ db[j].type = call.arg
         /\ db[i].created_at # db[j].created_at

\* ==================================================================== C16
\* C16: search_clipboard_items(term) returns exactly the entries whose
\* content contains term as a literal substring, ignoring case, also when
\* term contains % or _.
C16_SearchIsLiteral ==
    (call.op = "search_clipboard_items" /\ ~call.failed)
        => call.ret =
             SelectSeq(load_clipboard_data(db, <<>>, tie_order),
                       LAMBDA d : ContainsIgnoringCase(d.content, call.arg))

\* ==================================================================== C17
\* C17: every I/O failure of a write (saving an item, clearing, rewriting the
\* history) reaches the immediate caller as a failure result: what a failed
\* call hands back differs from what the same call hands back on success.
C17_WriteFailureReported ==
    (call.op \in WriteOps /\ call.failed)
        => call.ret # WriteResult(call.op, TRUE)

\* ==================================================================== C18
\* C18: a write that fails is all-or-nothing: when save_clipboard_item,
\* clear_all_items or the delete-then-reinsert of save_clipboard_data hits an
\* I/O failure at any statement, the stored history afterwards is exactly
\* the history from before the call.
C18_FailedWriteChangesNothing ==
    (call.op \in WriteOps /\ call.failed) => db = call.before

\* save_clipboard_data failed after deleting two rows and inserting one.
C18_Witness ==
    /\ call.op = "save_clipboard_data"
    /\ call.failed
    /\ Len(call.before) = 2
    /\ Len(call.undone) = 1
    /\ db = call.before

\* ==================================================================== C19
\* Everything a call hands to its caller: the value, or the exception.
Outcome(c) == <<c.ret, c.raised>>

\* What the same read hands back, without any error, on an empty history.
EmptyHistoryOutcome(c) ==
    <<ReadResult(c.op, c.arg, <<>>, tie_order), FALSE>>

\* C19: a read (list, filter, search, count) that hits an I/O error does not
\* raise to the caller and returns an empty result, and the caller can tell
\* the failed read from a read of a history that is really empty.
C19_ReadFailureTold ==
    (call.op \in ReadOps /\ call.failed)
        => /\ ~call.raised
           /\ IF call.op = "get_item_count" THEN call.ret = 0
              ELSE Len(call.ret) = 0
           /\ Outcome(call) # EmptyHistoryOutcome(call)

\* ==================================================================== C20
\* C20: with one writer and readers running between its statements, a list
\* read that goes through returns whole entries only, and together they are
\* the committed history of the instant of the read: every row of it once,
\* nothing of a transaction still open, and the item of the latest write
\* that reported success among them.
C20_ReadersSeeCommitted ==
    (call.op = "load_clipboard_data" /\ ~call.failed /\ call.arg = <<>>)
        => /\ Len(call.ret) = Len(db)
           /\ Range(call.ret) = Range(RowDicts(db))
           /\ last_write.op = "save_clipboard_item"
                => last_write.item[1] \in Range(call.ret)

\* A list read made while save_clipboard_data had deleted the two committed
\* rows and inserted one of its own.
C20_Witness ==
    /\ call.op = "load_clipboard_data"
    /\ ~call.failed
    /\ call.arg = <<>>
    /\ txn.op = "save_clipboard_data"
    /\ Len(txn.work) = 1
    /\ Len(db) = 2
    /\ Len(call.ret) = 2
    /\ last_write.op = "save_clipboard_item"

\* ==================================================================== C21
\* The stored history as a reader gets it.
PersistedHistory == load_clipboard_data(db, <<>>, tie_order)

\* Every entry of a is in b, and in the order it has in a.
RECURSIVE IsSubsequence(_, _)
IsSubsequence(a, b) ==
    IF a = <<>> THEN TRUE
    ELSE IF b = <<>> THEN FALSE
    ELSE IF Head(a) = Head(b) THEN IsSubsequence(Tail(a), Tail(b))
    ELSE IsSubsequence(a, Tail(b))

\* C21: the history is append-only. Every step that is not a clear-all keeps
\* every stored entry, with its content, category and capture time, and
\* keeps the stored entries in their relative order.
C21_AppendOnly ==
    [][WindowClear \/ IsSubsequence(PersistedHistory, PersistedHistory')]_vars

\* ==================================================================== C22
\* The handler took e into the list, and no save has stored it.
PersistFailed(e) ==
    /\ e \in Range(delivered)
    /\ e \in Range(clipboard_items)
    /\ e \notin Range(store)

\* C22: when persisting an accepted entry fails, the loop that emitted it
\* keeps polling (it is alive for as long as monitoring is on), its
\* previous_content has moved on to the content of the entry it emitted
\* last, and the content of the entry is not processed a second time.
C22_PersistFailureLeavesLoop ==
    \A t \in Threads : \A e \in Range(emitted) :
        (PersistFailed(e) /\ pc[t] \notin {"none", "start", "crashed"})
            => /\ monitoring_active => Alive(t)
               /\ previous_content[t] = emitted[Len(emitted)].content
               /\ e.content \in seen_entries[t]
               /\ Occurrences(ItemContents(emitted), e.content) = 1

\* The save of an entry failed, the clipboard still holds its content, and
\* the loop has polled it again and gone to sleep with nothing to deliver.
C22_Witness ==
    \E t \in Threads : \E e \in Range(emitted) :
        /\ PersistFailed(e)
        /\ monitoring_active
        /\ clipboard = e.content
        /\ previous_content[t] = e.content
        /\ pc[t] = "sleep"
        /\ queue = <<>>
        /\ Len(emitted) = 2

\* ==================================================================== C23
\* C23: a click on the Copy button of an entry E writes E's content to the
\* OS clipboard and does nothing else: the stored history and the list in
\* memory are the same before and after the click.
C23_RecopyFrame ==
    [][\A i \in 1..MaxCopies :
          copy_btn_clicked(i)
              => /\ clipboard' = items_layout[i].content
                 /\ UNCHANGED <<store, db, clipboard_items, items_layout>>]_vars

\* The button of the older of two entries was clicked while the clipboard
\* held the newer one.
C23_Witness ==
    /\ last_call = "recopy"
    /\ Len(clipboard_items) = 2
    /\ Len(store) = 2
    /\ clipboard = clipboard_items[2].content

\* ==================================================================== C24
\* C24: whenever the text contains one of the LaTeX backslash-command
\* indicators, the classifier returns LaTeX, also when the text contains
\* Code indicators as well.
C24_LatexWins ==
    (/\ call.op \in {"categorize_content", "categorize_text"}
     /\ \E indicator \in latex_indicators : In(indicator, call.arg))
        => call.ret = "LaTeX"

\* ==================================================================== C25
\* C25: whenever the text contains http:// or https://, or starts with www.,
\* the classifier returns URL, whatever else the text contains.
C25_UrlFirst ==
    (/\ call.op \in {"categorize_content", "categorize_text"}
     /\ \/ In(<<"h", "t", "t", "p", ":", "/", "/">>, call.arg)
        \/ In(<<"h", "t", "t", "p", "s", ":", "/", "/">>, call.arg)
        \/ /\ Len(call.arg) >= 4
           /\ SubSeq(call.arg, 1, 4) = <<"w", "w", "w", ".">>)
        => call.ret = "URL"

\* ==================================================================== C26
\* C26: within one run of the polling loop the contents of the emitted
\* items are pairwise different and all differ from the value the loop read
\* when it started (the one member of seen_entries that was never emitted);
\* clearing the history in the window changes nothing of this.
InLoop(t) == pc[t] \in {"while", "paste", "emit", "sleep", "except", "done"}

C26_EmittedOncePerRun ==
    \A t \in Threads :
        InLoop(t) =>
            /\ \A i, j \in 1..Len(emitted) :
                   i # j => emitted[i].content # emitted[j].content
            /\ \E first \in seen_entries[t] :
                   /\ \A i \in 1..Len(emitted) : emitted[i].content # first
                   /\ seen_entries[t] =
                          {first} \cup Range(ItemContents(emitted))

\* Two items were emitted, the history was cleared between their deliveries,
\* and the first item's text is on the clipboard again, read and passed over.
C26_Witness ==
    \E t \in Threads :
        /\ pc[t] = "sleep"
        /\ Len(emitted) = 2
        /\ delivered = emitted
        /\ Len(clipboard_items) = 1
        /\ clipboard = emitted[1].content
        /\ previous_content[t] = emitted[2].content
        /\ last_call = "other"

\* ==================================================================== C27
\* C27: when add_clipboard_item or clear_clipboard_history has run to its
\* end, the stored history read back is the window's clipboard_items: the
\* same entries in the same order, also when the write of the handler failed.
C27_StoreMirrorsList ==
    [][((\E v \in StoredValues : WindowAdd(v)) \/ WindowClear)
          => PersistedHistory' = clipboard_items']_vars

\* ==================================================================== C28
\* A list that holds its entries from the most recent to the oldest.
MostRecentFirst(items) ==
    \A i, j \in 1..Len(items) :
        i < j => items[i].timestamp > items[j].timestamp

\* The rewrite of the step was committed with the list items.
Committed(items) ==
    /\ seq' = seq + Len(items)
    /\ items = <<>> => db' = <<>>

\* C28: restart round trip. When the application quits with a most-recent-
\* first list L and save_clipboard_data(L) is committed, load_clipboard_data()
\* returns the entries of L in the order of L.
C28_RestartRoundTrip ==
    [][(/\ WindowQuit
        /\ MostRecentFirst(clipboard_items)
        /\ Committed(clipboard_items))
          => PersistedHistory' = clipboard_items]_vars

\* ==================================================================== C29
\* C29: when classifying or emitting a value that was just read raises, the
\* iteration emits nothing, previous_content and seen_entries stay as they
\* were, the loop stays alive, and the value still passes the test of line 59,
\* so the next poll that reads it processes it again.
C29_FailedIterationRetried ==
    [][\A t \in Threads :
          EmitFails(t) =>
              /\ emitted' = emitted
              /\ queue' = queue
              /\ previous_content'[t] = previous_content[t]
              /\ seen_entries'[t] = seen_entries[t]
              /\ pc'[t] = "except"
              /\ IsNew(current_content[t], previous_content'[t],
                       seen_entries'[t])]_vars

\* The second read found a new value and its iteration raised; the third
\* read found the same value and emitted it.
C29_Witness ==
    \E t \in Threads :
        /\ faulted[t]
        /\ Len(observed[t]) = 3
        /\ observed[t][2] = observed[t][3]
        /\ Len(emitted) = 1
        /\ emitted[1].content = observed[t][3]

\* ==================================================================== C30
\* C30: every kind of refresh leaves the same order on the screen, the
\* newest entry on top: after a live add, a full redisplay, filter_items
\* with "All" and a search for the empty string, the widgets from top to
\* bottom are the entries of clipboard_items from first to last.
C30_SameOrderAfterRefresh ==
    [][(\/ \E v \in StoredValues : WindowAdd(v)
        \/ WindowDisplay
        \/ WindowFilter("All")
        \/ WindowSearch(<<>>))
          => items_layout' = clipboard_items']_vars
====
